---- MODULE Spec2Model ----
(***************************************************************************)
(* A model of wise_examples/simple_calendar.py: the Ticketmaster concert   *)
(* search (parse_event_datetime, event_falls_within_time_ranges,           *)
(* extract_event_details, get_concerts_in_time_ranges), the Google         *)
(* Calendar tools (list/get/create/update/delete) against an upstream      *)
(* event store, and the search-by-filters tool.                            *)
(*                                                                         *)
(* Python values are modelled as follows.                                  *)
(*   dict      a function with string keys; a missing key is a key that is *)
(*             not in the DOMAIN; {} is the empty function <<>>             *)
(*   list      a sequence                                                  *)
(*   None      the string None (for str-or-None values) or the record      *)
(*             NoneDT (for datetime-or-None values)                        *)
(*   datetime  an aware datetime [kind, wall, off]: wall is the wall-clock *)
(*             reading in hours since 2026-01-01T00:00:00 and off its UTC  *)
(*             offset in hours; the instant it denotes is wall - off       *)
(*   a call    a record [exc, value]: exc is None when the call returns    *)
(*             value, and the exception class when it raises               *)
(***************************************************************************)
EXTENDS Integers, Sequences, FiniteSets, TLC

VARIABLES
    \* get_concerts_in_time_ranges: one invocation
    pc_concerts,      \* "idle", "awaiting", "returned", "raised"
    time_ranges,      \* the time_ranges argument
    genre_arg,        \* the genre argument (None when not given)
    tool_args,        \* the strings e100_h100_get_ticketmaster_concerts was called
                      \* with, <<>> when get_concerts_in_time_ranges was called itself
    vendor_requests,  \* the GET requests sent to the Ticketmaster API (their params)
    vendor_response,  \* what the awaited client.get / raise_for_status / json produced
    concerts_result,  \* the returned list
    concerts_raised,  \* the exception class that left the function, or None
    \* the Google Calendar tools: concurrent invocations against one upstream calendar
    store,            \* the upstream calendar: a dict from event id to event document
    writes,           \* how many writes (POST, PUT, DELETE) the upstream has applied
    last_writer,      \* per event id, the invocation whose write was applied last (0: none)
    cal,              \* per invocation: pc, op, args, requests sent, current_event, result
    \* e100_h100_search_ticketmaster_events: one invocation
    search            \* pc, args, requests sent, response awaited, result, raised

concert_vars == <<pc_concerts, time_ranges, genre_arg, tool_args, vendor_requests,
                  vendor_response, concerts_result, concerts_raised>>

calendar_vars == <<store, writes, last_writer, cal>>

vars == <<concert_vars, calendar_vars, search>>

----------------------------------------------------------------------------
(* Bounds of the model *)

\* the longest time_ranges list a caller passes
MaxRanges == 2
\* the longest event list of a vendor response
MaxEvents == 2
\* the number of calendar tool invocations in flight together
NumInvocations == 2

BoundedSeq(S, n) == UNION {[1..k -> S] : k \in 0..n}

----------------------------------------------------------------------------
(* Python helpers *)

None == "<None>"
NoneDT == [kind |-> "None"]

Returns(v) == [exc |-> None, value |-> v]
\* no call was awaited yet
NoResponse == [exc |-> "NoResponse", value |-> None]
Raises(e) == [exc |-> e, value |-> None]

\* dict.get(k, default)
Get(d, k, default) == IF k \in DOMAIN d THEN d[k] ELSE default

\* truth value of a str-or-None
Truthy(s) == s # None /\ s # ""

\* None where a dict is expected, and the truth value of a dict-or-None
NoneDict == [None |-> TRUE]
TruthyDict(d) == d # NoneDict /\ d # <<>>

\* bool(v) of any value: None, False, 0, "" and the empty list or dict are
\* false, every other value is true
Bool(v) ==
    ToString(v) \notin {ToString(None), ToString(NoneDict), ToString(FALSE), ToString(0),
                        ToString(""), "<<>>", "<< >>"}

\* a == b for values of any two types
Eq(a, b) == ToString(a) = ToString(b)

\* f"{v}": a str is itself, None is "None", the booleans are "True" and
\* "False", an int is its digits
Str(v) ==
    IF SubSeq(ToString(v), 1, 1) = "\"" THEN (IF v = None THEN "None" ELSE v)
    ELSE IF ToString(v) = "TRUE" THEN "True"
    ELSE IF ToString(v) = "FALSE" THEN "False"
    ELSE ToString(v)

\* an aware datetime, and a naive one (tzinfo is None)
DateTime(w, o) == [kind |-> "datetime", wall |-> w, off |-> o]
NaiveDateTime(w) == [kind |-> "naive", wall |-> w, off |-> 0]

\* aware datetimes compare by the instant they denote, naive ones by their
\* wall-clock reading; comparing a naive with an aware datetime raises TypeError
Instant(dt) == dt.wall - dt.off
Comparable(a, b) == a.kind = b.kind

\* the calendar dates and clock times datetime.fromisoformat accepts here,
\* as hours since 2026-01-01 and hours since midnight
DateHours == ("2026-01-01" :> 0) @@ ("2026-01-02" :> 24) @@ ("2026-01-03" :> 48)
TimeHours == ("00:00:00" :> 0) @@ ("09:00:00" :> 9) @@ ("10:00:00" :> 10)
             @@ ("12:00:00" :> 12) @@ ("14:00:00" :> 14) @@ ("15:00:00" :> 15)

\* datetime.fromisoformat(f"{date_str}T{time_str}").replace(tzinfo=timezone.utc)
FromIsoFormatUTC(date_str, time_str) ==
    IF date_str \in DOMAIN DateHours /\ time_str \in DOMAIN TimeHours
    THEN Returns(DateTime(DateHours[date_str] + TimeHours[time_str], 0))
    ELSE Raises("ValueError")

\* dt.strftime("%Y-%m-%dT%H:%M:%SZ"): the wall-clock fields followed by a literal Z;
\* the datetime's own offset is not consulted
StrfTimeZ(dt) == [ymdhms |-> dt.wall, suffix |-> "Z"]

\* dt.isoformat(): the wall-clock fields followed by the datetime's offset
IsoFormat(dt) == [ymdhms |-> dt.wall, suffix |-> dt.off]

\* min(xs) of datetimes: the first least element; ValueError on an empty list,
\* TypeError when a naive and an aware datetime are compared
RECURSIVE MinFrom(_, _)
MinFrom(m, xs) ==
    IF xs = <<>> THEN Returns(m)
    ELSE IF ~Comparable(Head(xs), m) THEN Raises("TypeError")
    ELSE MinFrom(IF Instant(Head(xs)) < Instant(m) THEN Head(xs) ELSE m, Tail(xs))
PyMin(xs) == IF xs = <<>> THEN Raises("ValueError") ELSE MinFrom(Head(xs), Tail(xs))

\* max(xs) of datetimes: the first greatest element; ValueError on an empty list,
\* TypeError when a naive and an aware datetime are compared
RECURSIVE MaxFrom(_, _)
MaxFrom(m, xs) ==
    IF xs = <<>> THEN Returns(m)
    ELSE IF ~Comparable(Head(xs), m) THEN Raises("TypeError")
    ELSE MaxFrom(IF Instant(Head(xs)) > Instant(m) THEN Head(xs) ELSE m, Tail(xs))
PyMax(xs) == IF xs = <<>> THEN Raises("ValueError") ELSE MaxFrom(Head(xs), Tail(xs))

\* ", ".join(parts)
RECURSIVE Join(_)
Join(parts) ==
    IF parts = <<>> THEN ""
    ELSE IF Len(parts) = 1 THEN parts[1]
    ELSE parts[1] \o ", " \o Join(Tail(parts))

----------------------------------------------------------------------------
(* Program constants *)

TICKETMASTER_API_KEY == "gpMqpLqs1VDGhY1mgRhT0UOSh1EgHSM1"
\* timedelta(hours=3)
FallbackHours == 3
\* "size": 30
ConcertPageSize == 30

----------------------------------------------------------------------------
(* parse_event_datetime *)

ParseWithoutFallback(event) ==
    LET dates_info == Get(Get(event, "dates", <<>>), "start", <<>>)
        date_str == Get(dates_info, "localDate", None)
        time_str == Get(dates_info, "localTime", "00:00:00")
        end_info == Get(Get(event, "dates", <<>>), "end", <<>>)
        end_date_str == Get(end_info, "localDate", None)
        end_time_str == Get(end_info, "localTime", None)
        start_datetime == FromIsoFormatUTC(date_str, time_str)
        explicit_end == FromIsoFormatUTC(end_date_str, end_time_str)
    IN  IF ~Truthy(date_str) THEN Returns(<<NoneDT, NoneDT>>)
        ELSE IF start_datetime.exc # None THEN Raises(start_datetime.exc)
        ELSE IF Truthy(end_date_str) /\ Truthy(end_time_str)
             THEN IF explicit_end.exc # None THEN Raises(explicit_end.exc)
                  ELSE Returns(<<start_datetime.value, explicit_end.value>>)
             ELSE Returns(<<start_datetime.value, NoneDT>>)
parse_event_datetime(event) ==
    LET dates_info == Get(Get(event, "dates", <<>>), "start", <<>>)
        date_str == Get(dates_info, "localDate", None)
        time_str == Get(dates_info, "localTime", "00:00:00")
        end_info == Get(Get(event, "dates", <<>>), "end", <<>>)
        end_date_str == Get(end_info, "localDate", None)
        end_time_str == Get(end_info, "localTime", None)
        start_datetime == FromIsoFormatUTC(date_str, time_str)
        explicit_end == FromIsoFormatUTC(end_date_str, end_time_str)
    IN  IF ~Truthy(date_str) THEN Returns(<<NoneDT, NoneDT>>)
        ELSE IF start_datetime.exc # None THEN Raises(start_datetime.exc)
        ELSE IF Truthy(end_date_str) /\ Truthy(end_time_str)
             THEN IF explicit_end.exc # None THEN Raises(explicit_end.exc)
                  ELSE Returns(<<start_datetime.value, explicit_end.value>>)
             ELSE Returns(<<start_datetime.value,
                            DateTime(start_datetime.value.wall + FallbackHours,
                                     start_datetime.value.off)>>)

----------------------------------------------------------------------------
(* extract_event_details *)

\* the address parts of a venue, in the order the code appends them
AddressParts(venue) ==
    LET line1 == Get(Get(venue, "address", <<>>), "line1", None)
        city == Get(Get(venue, "city", <<>>), "name", None)
        state == Get(Get(venue, "state", <<>>), "stateCode", None)
        postal == Get(venue, "postalCode", None)
        country == Get(Get(venue, "country", <<>>), "countryCode", None)
    IN  (IF Truthy(line1) THEN <<line1>> ELSE <<>>)
        \o (IF Truthy(city) THEN <<city>> ELSE <<>>)
        \o (IF Truthy(state) THEN <<state>> ELSE <<>>)
        \o (IF Truthy(postal) THEN <<postal>> ELSE <<>>)
        \o (IF Truthy(country) THEN <<country>> ELSE <<>>)

VenueDetails(event) ==
    IF "_embedded" \in DOMAIN event /\ "venues" \in DOMAIN event["_embedded"]
    THEN IF event["_embedded"]["venues"] = <<>> THEN Raises("IndexError")
         ELSE LET venue == event["_embedded"]["venues"][1]
                  address_parts == AddressParts(venue)
              IN  Returns([venue_name |-> Get(venue, "name", "N/A"),
                           venue_address |-> IF address_parts # <<>>
                                             THEN Join(address_parts) ELSE "N/A"])
    ELSE Returns([venue_name |-> "N/A", venue_address |-> "N/A"])

ClassificationDetails(event) ==
    LET classifications == Get(event, "classifications", <<>>)
    IN  IF classifications # <<>>
        THEN [category |-> Get(Get(classifications[1], "segment", <<>>), "name", "N/A"),
              genre |-> Get(Get(classifications[1], "genre", <<>>), "name", "N/A"),
              subgenre |-> Get(Get(classifications[1], "subGenre", <<>>), "name", "N/A")]
        ELSE [category |-> "N/A", genre |-> "N/A", subgenre |-> "N/A"]

PriceDetailsCurrencyAlwaysUSD(event) ==
    LET price_ranges == Get(event, "priceRanges", <<>>)
    IN  IF price_ranges # <<>>
        THEN [price_min |-> Get(price_ranges[1], "min", "N/A"),
              price_max |-> Get(price_ranges[1], "max", "N/A"),
              currency |-> Get(price_ranges[1], "currency", "USD")]
        ELSE [price_min |-> "N/A", price_max |-> "N/A", currency |-> "USD"]
PriceDetails(event) ==
    LET price_ranges == Get(event, "priceRanges", <<>>)
    IN  IF price_ranges # <<>>
        THEN [price_min |-> Get(price_ranges[1], "min", "N/A"),
              price_max |-> Get(price_ranges[1], "max", "N/A"),
              currency |-> Get(price_ranges[1], "currency", "USD")]
        ELSE [price_min |-> "N/A", price_max |-> "N/A", currency |-> "N/A"]

extract_event_details(event) ==
    LET parsed == parse_event_datetime(event)
        start_dt == parsed.value[1]
        end_dt == parsed.value[2]
        venue == VenueDetails(event)
        cls == ClassificationDetails(event)
        price == PriceDetails(event)
        public_sale == Get(Get(event, "sales", <<>>), "public", <<>>)
    IN  IF parsed.exc # None THEN Raises(parsed.exc)
        ELSE IF venue.exc # None THEN Raises(venue.exc)
        ELSE Returns(
            [name |-> Get(event, "name", "N/A"),
             url |-> Get(event, "url", "N/A"),
             concert_start |-> IF start_dt # NoneDT THEN IsoFormat(start_dt) ELSE "N/A",
             concert_end |-> IF end_dt # NoneDT THEN IsoFormat(end_dt) ELSE "N/A",
             venue_name |-> venue.value.venue_name,
             venue_address |-> venue.value.venue_address,
             category |-> cls.category,
             genre |-> cls.genre,
             subgenre |-> cls.subgenre,
             price_min |-> price.price_min,
             price_max |-> price.price_max,
             currency |-> price.currency,
             onsale_start |-> Get(public_sale, "startDateTime", "N/A"),
             onsale_end |-> Get(public_sale, "endDateTime", "N/A"),
             sale_status |-> Get(public_sale, "startTBD", FALSE)])

----------------------------------------------------------------------------
(* event_falls_within_time_ranges *)

\* if range_start <= event_start and event_end <= range_end: the second comparison
\* is made only when the first holds, and either raises TypeError between a naive
\* and an aware datetime
InRangeOverlapping(range_start, range_end, event_start, event_end) ==
    IF ~Comparable(range_start, event_end) THEN Raises("TypeError")
    ELSE IF ~(Instant(range_start) <= Instant(event_end)) THEN Returns(FALSE)
    ELSE IF ~Comparable(event_start, range_end) THEN Raises("TypeError")
    ELSE Returns(Instant(event_start) <= Instant(range_end))
InRangeExclusiveEnd(range_start, range_end, event_start, event_end) ==
    IF ~Comparable(range_start, event_start) THEN Raises("TypeError")
    ELSE IF ~(Instant(range_start) <= Instant(event_start)) THEN Returns(FALSE)
    ELSE IF ~Comparable(event_end, range_end) THEN Raises("TypeError")
    ELSE Returns(Instant(event_end) < Instant(range_end))
InRange(range_start, range_end, event_start, event_end) ==
    IF ~Comparable(range_start, event_start) THEN Raises("TypeError")
    ELSE IF ~(Instant(range_start) <= Instant(event_start)) THEN Returns(FALSE)
    ELSE IF ~Comparable(event_end, range_end) THEN Raises("TypeError")
    ELSE Returns(Instant(event_end) <= Instant(range_end))

\* for range_start, range_end in time_ranges: ... return True; return False
RECURSIVE AnyRangeContains(_, _, _)
AnyRangeContains(ranges, event_start, event_end) ==
    IF ranges = <<>> THEN Returns(FALSE)
    ELSE LET within == InRange(Head(ranges)[1], Head(ranges)[2], event_start, event_end)
         IN  IF within.exc # None THEN within
             ELSE IF within.value THEN Returns(TRUE)
             ELSE AnyRangeContains(Tail(ranges), event_start, event_end)

EventFallsUnparsedIsContained(event, ranges) ==
    LET parsed == parse_event_datetime(event)
        event_start == parsed.value[1]
        event_end == parsed.value[2]
    IN  IF parsed.exc # None THEN Raises(parsed.exc)
        ELSE IF event_start = NoneDT \/ event_end = NoneDT THEN Returns(TRUE)
        ELSE AnyRangeContains(ranges, event_start, event_end)
event_falls_within_time_ranges(event, ranges) ==
    LET parsed == parse_event_datetime(event)
        event_start == parsed.value[1]
        event_end == parsed.value[2]
    IN  IF parsed.exc # None THEN Raises(parsed.exc)
        ELSE IF event_start = NoneDT \/ event_end = NoneDT THEN Returns(FALSE)
        ELSE AnyRangeContains(ranges, event_start, event_end)

----------------------------------------------------------------------------
(* get_concerts_in_time_ranges *)

\* if not time_ranges
NoRangesNever(ranges) == FALSE
NoRanges(ranges) == ranges = <<>>

\* all_starts, all_ends
AllStarts(ranges) == [i \in 1..Len(ranges) |-> ranges[i][1]]
AllEnds(ranges) == [i \in 1..Len(ranges) |-> ranges[i][2]]

\* the params of the request; genreName only when genre is truthy
ConcertParams(city, state_code, overall_start, overall_end, genre) ==
    LET params == [apikey |-> TICKETMASTER_API_KEY,
                   city |-> city,
                   stateCode |-> state_code,
                   startDateTime |-> StrfTimeZ(overall_start),
                   endDateTime |-> StrfTimeZ(overall_end),
                   classificationName |-> "Music",
                   sort |-> "relevance,desc",
                   size |-> ConcertPageSize]
    IN  IF Truthy(genre) THEN params @@ [genreName |-> genre] ELSE params

\* the exception classes of the model, and httpx.HTTPError's subclasses among them
ExceptionClasses == {"ConnectError", "HTTPStatusError", "JSONDecodeError",
                     "ValueError", "IndexError", "TypeError"}
HTTPErrorClasses == {"ConnectError", "HTTPStatusError"}

\* except Exception as e
ConcertsCatchesHTTPErrorOnly(exc) == exc \in HTTPErrorClasses
ConcertsCatches(exc) == exc \in ExceptionClasses

\* for event in events: if event_falls_within_time_ranges(...): append details
RECURSIVE FilterEvents(_, _, _)
FilterEvents(events, ranges, filtered_events) ==
    IF events = <<>> THEN Returns(filtered_events)
    ELSE LET within == event_falls_within_time_ranges(Head(events), ranges)
             event_details == extract_event_details(Head(events))
         IN  IF within.exc # None THEN Raises(within.exc)
             ELSE IF ~within.value
                  THEN FilterEvents(Tail(events), ranges, filtered_events)
             ELSE IF event_details.exc # None THEN Raises(event_details.exc)
             ELSE FilterEvents(Tail(events), ranges,
                               Append(filtered_events, event_details.value))

\* the body of the try block once client.get has been awaited
ConcertsTryBody(response, ranges) ==
    IF response.exc # None THEN Raises(response.exc)
    ELSE LET data == response.value
         IN  IF "_embedded" \in DOMAIN data /\ "events" \in DOMAIN data["_embedded"]
             THEN FilterEvents(data["_embedded"]["events"], ranges, <<>>)
             ELSE Returns(<<>>)

\* the function up to its await: the empty check, the covering window, the request
get_concerts_in_time_ranges(city, state_code, ranges, genre) ==
    LET overall_start == PyMin(AllStarts(ranges))
        overall_end == PyMax(AllEnds(ranges))
    IN  /\ pc_concerts = "idle"
        /\ time_ranges' = ranges
        /\ genre_arg' = genre
        /\ UNCHANGED vendor_response
        /\ IF NoRanges(ranges)
           THEN /\ pc_concerts' = "returned"
                /\ concerts_result' = <<>>
                /\ UNCHANGED <<vendor_requests, concerts_raised>>
           ELSE IF overall_start.exc # None \/ overall_end.exc # None
           THEN /\ pc_concerts' = "raised"
                /\ concerts_raised' = IF overall_start.exc # None
                                      THEN overall_start.exc ELSE overall_end.exc
                /\ UNCHANGED <<vendor_requests, concerts_result>>
           ELSE /\ pc_concerts' = "awaiting"
                /\ vendor_requests' = Append(vendor_requests,
                       ConcertParams(city, state_code, overall_start.value,
                                     overall_end.value, genre))
                /\ UNCHANGED <<concerts_result, concerts_raised>>

\* the function from its await on: the response is handled inside try/except
get_concerts_in_time_ranges_resume(response) ==
    LET body == ConcertsTryBody(response, time_ranges)
    IN  /\ pc_concerts = "awaiting"
        /\ vendor_response' = response
        /\ UNCHANGED <<time_ranges, genre_arg, tool_args, vendor_requests>>
        /\ IF body.exc = None
           THEN /\ pc_concerts' = "returned"
                /\ concerts_result' = body.value
                /\ UNCHANGED concerts_raised
           ELSE IF ConcertsCatches(body.exc)
           THEN /\ pc_concerts' = "returned"
                /\ concerts_result' = <<>>
                /\ UNCHANGED concerts_raised
           ELSE /\ pc_concerts' = "raised"
                /\ concerts_raised' = body.exc
                /\ UNCHANGED concerts_result

\* get_concerts: one range, the default city and state, no genre
get_concerts(start_date, end_date, city, state_code) ==
    get_concerts_in_time_ranges(city, state_code, <<<<start_date, end_date>>>>, None)

\* s.replace("Z", "+00:00")
RECURSIVE ReplaceZ(_)
ReplaceZ(s) ==
    IF Len(s) = 0 THEN s
    ELSE (IF SubSeq(s, 1, 1) = "Z" THEN "+00:00" ELSE SubSeq(s, 1, 1))
         \o ReplaceZ(SubSeq(s, 2, Len(s)))

\* datetime.fromisoformat on the strings callers pass: aware with an offset, naive
\* without one, ValueError on anything else
IsoDateTimes ==
    ("2026-01-01T10:00:00+00:00" :> DateTime(10, 0))
    @@ ("2026-01-01T12:00:00+00:00" :> DateTime(12, 0))
    @@ ("2026-01-01T14:00:00+05:00" :> DateTime(14, 5))
    @@ ("2026-01-01T18:00:00+05:00" :> DateTime(18, 5))
    @@ ("2026-01-01T10:00:00" :> NaiveDateTime(10))
    @@ ("2026-01-01T12:00:00" :> NaiveDateTime(12))
FromIsoFormat(s) ==
    IF s \in DOMAIN IsoDateTimes THEN Returns(IsoDateTimes[s]) ELSE Raises("ValueError")

\* the tool: both strings are parsed before get_concerts is called, outside any try
e100_h100_get_ticketmaster_concerts(start_time, end_time) ==
    LET start_dt == FromIsoFormat(ReplaceZ(start_time))
        end_dt == FromIsoFormat(ReplaceZ(end_time))
    IN  /\ pc_concerts = "idle"
        /\ tool_args' = [start_time |-> start_time, end_time |-> end_time]
        /\ IF start_dt.exc # None \/ end_dt.exc # None
           THEN /\ pc_concerts' = "raised"
                /\ concerts_raised' = "ValueError"
                /\ UNCHANGED <<time_ranges, genre_arg, vendor_requests, vendor_response,
                               concerts_result>>
           ELSE get_concerts(start_dt.value, end_dt.value, "Toronto", "ON")

\* no concert search has been called
ConcertsAtRest ==
    /\ pc_concerts = "idle"
    /\ time_ranges = <<>>
    /\ genre_arg = None
    /\ tool_args = <<>>
    /\ vendor_requests = <<>>
    /\ vendor_response = NoResponse
    /\ concerts_result = <<>>
    /\ concerts_raised = None

\* no search by filters has been called
SearchAtRest ==
    search = [pc |-> "idle", args |-> <<>>, requests |-> <<>>, response |-> NoResponse,
              result |-> <<>>, raised |-> None]

----------------------------------------------------------------------------
(* format_event_to_document *)

\* f"{name} - {status}{organizer}" for one attendee
FormatAttendee(attendee) ==
    Str(Get(attendee, "displayName", Get(attendee, "email", "Unknown")))
    \o " - " \o Str(Get(attendee, "responseStatus", "needsAction"))
    \o (IF Bool(Get(attendee, "organizer", None)) THEN " (Organizer)" ELSE "")

\* the uri of the first entry point of type video, "" when there is none
RECURSIVE FirstVideoLink(_)
FirstVideoLink(entry_points) ==
    IF entry_points = <<>> THEN ""
    ELSE IF Eq(Get(Head(entry_points), "entryPointType", None), "video")
         THEN Get(Head(entry_points), "uri", "")
    ELSE FirstVideoLink(Tail(entry_points))

\* the lines f"  - {attendee}\n" of the attendee block
RECURSIVE AttendeeLines(_)
AttendeeLines(attendees) ==
    IF attendees = <<>> THEN ""
    ELSE "  - " \o FormatAttendee(Head(attendees)) \o "\n" \o AttendeeLines(Tail(attendees))

\* str.strip(): the string without its leading and trailing whitespace, the
\* characters of str.isspace(): space, \n, \t, \r, \f, then (written as the
\* characters themselves) U+000B, U+001C..U+001F, U+0085, U+00A0, U+1680.
\* The spaces U+2000..U+200A, U+2028, U+2029, U+202F, U+205F and U+3000 are
\* whitespace for str.strip() too; a TLA+ string cannot hold them, so no
\* string of the model contains one.
Whitespace ==
    {" ", "\n", "\t", "\r", "\f",
     "", "", "", "", "", "", " ", " "}
RECURSIVE LStrip(_)
LStrip(s) ==
    IF Len(s) = 0 THEN s
    ELSE IF SubSeq(s, 1, 1) \in Whitespace THEN LStrip(SubSeq(s, 2, Len(s)))
    ELSE s
RECURSIVE RStrip(_)
RStrip(s) ==
    IF Len(s) = 0 THEN s
    ELSE IF SubSeq(s, Len(s), Len(s)) \in Whitespace
         THEN RStrip(SubSeq(s, 1, Len(s) - 1))
    ELSE s
Strip(s) == LStrip(RStrip(s))

FormatUrlFromWrongKey(event) ==
    LET start == Get(event, "start", <<>>)
        end == Get(event, "end", <<>>)
    IN  [id |-> Get(event, "id", None),
         kind |-> Get(event, "kind", "calendar#event"),
         title |-> Get(event, "summary", "(No title)"),
         url |-> Get(event, "url", ""),
         content |-> "# " \o Get(event, "summary", "(No title)"),
         start_time |-> Get(start, "dateTime", Get(start, "date", "Not specified")),
         end_time |-> Get(end, "dateTime", Get(end, "date", "Not specified")),
         location |-> Get(event, "location", ""),
         attendees_count |-> Len(Get(event, "attendees", <<>>))]
format_event_to_document(event) ==
    LET summary == Get(event, "summary", "(No title)")
        description == Get(event, "description", "")
        location == Get(event, "location", "")
        html_link == Get(event, "htmlLink", "")
        start == Get(event, "start", <<>>)
        end == Get(event, "end", <<>>)
        start_time == Get(start, "dateTime", Get(start, "date", "Not specified"))
        end_time == Get(end, "dateTime", Get(end, "date", "Not specified"))
        attendees == Get(event, "attendees", <<>>)
        conference_data == Get(event, "conferenceData", <<>>)
        conference_link == IF Bool(conference_data)
                           THEN FirstVideoLink(Get(conference_data, "entryPoints", <<>>))
                           ELSE ""
        status == Get(event, "status", "confirmed")
        content ==
            "# " \o Str(summary) \o "\n\n"
            \o (IF Bool(description)
                THEN "**Description:** " \o Str(description) \o "\n\n" ELSE "")
            \o "**Start:** " \o Str(start_time) \o "\n"
            \o "**End:** " \o Str(end_time) \o "\n\n"
            \o (IF Bool(location)
                THEN "**Location:** " \o Str(location) \o "\n\n" ELSE "")
            \o (IF attendees # <<>>
                THEN "**Attendees (" \o ToString(Len(attendees)) \o "):**\n"
                     \o AttendeeLines(attendees) \o "\n"
                ELSE "")
            \o (IF Bool(conference_link)
                THEN "**Video Conference:** " \o Str(conference_link) \o "\n\n" ELSE "")
            \o "**Status:** " \o Str(status) \o "\n"
            \o (IF Bool(html_link) THEN "**Link:** " \o Str(html_link) \o "\n" ELSE "")
    IN  [id |-> Get(event, "id", None),
         kind |-> Get(event, "kind", "calendar#event"),
         title |-> summary,
         url |-> html_link,
         content |-> Strip(content),
         start_time |-> start_time,
         end_time |-> end_time,
         location |-> location,
         attendees_count |-> Len(attendees)]

----------------------------------------------------------------------------
(* The calendar API helpers and the upstream they talk to *)

CALENDAR_API_BASE == "https://www.googleapis.com/calendar/v3"
\* os.getenv("ACCESS_TOKEN")
ACCESS_TOKEN == "ya29.access-token"
_get_google_token == ACCESS_TOKEN

EventsUrl == CALENDAR_API_BASE \o "/calendars/primary/events"
EventUrl(event_id) == EventsUrl \o "/" \o event_id

\* None where a dict is expected (params: dict = None, json_payload: dict = None)

\* d[k] = v
Set(d, k, v) == [x \in DOMAIN d \cup {k} |-> IF x = k THEN v ELSE d[x]]

\* _fetch_calendar_data: the one GET it sends
FetchRequest(access_token, url, params) ==
    [method |-> "GET", url |-> url,
     headers |-> [Authorization |-> "Bearer " \o access_token],
     params |-> params]

\* the requests one call of _fetch_calendar_data sends
FetchRequestsTwice(access_token, url, params) ==
    <<FetchRequest(access_token, url, params), FetchRequest(access_token, url, params)>>
FetchRequests(access_token, url, params) ==
    <<FetchRequest(access_token, url, params)>>

\* the body of a response that is not JSON: response.json() raises JSONDecodeError
NotJSON == [not_json |-> TRUE]

\* _fetch_calendar_data after its await: raise_for_status, then response.json()
FetchResultNoRaiseForStatus(response) ==
    IF response.exc = "HTTPStatusError" THEN Returns(<<>>)
    ELSE IF response.exc # None THEN Raises(response.exc)
    ELSE IF response.value.json = NotJSON THEN Raises("JSONDecodeError")
    ELSE Returns(response.value.json)
FetchResult(response) ==
    IF response.exc # None THEN Raises(response.exc)
    ELSE IF response.value.json = NotJSON THEN Raises("JSONDecodeError")
    ELSE Returns(response.value.json)

\* the headers of _modify_calendar_data
ModifyHeadersIfMatch(access_token, json_payload) ==
    LET headers == [Authorization |-> "Bearer " \o access_token]
    IN  IF TruthyDict(json_payload)
        THEN headers @@ ("Content-Type" :> "application/json")
                     @@ ("If-Match" :> Get(json_payload, "etag", "*"))
        ELSE headers
ModifyHeaders(access_token, json_payload) ==
    LET headers == [Authorization |-> "Bearer " \o access_token]
    IN  IF TruthyDict(json_payload)
        THEN headers @@ ("Content-Type" :> "application/json")
        ELSE headers

\* _modify_calendar_data: the one request it sends
ModifyRequest(access_token, url, method, json_payload) ==
    [method |-> method, url |-> url,
     headers |-> ModifyHeaders(access_token, json_payload),
     json |-> json_payload]

\* _modify_calendar_data after its await: raise_for_status, 204, response.json()
ModifyResult(response) ==
    IF response.exc # None THEN Raises(response.exc)
    ELSE IF response.value.status_code = 204 THEN Returns([success |-> TRUE])
    ELSE IF response.value.json = NotJSON THEN Raises("JSONDecodeError")
    ELSE Returns(response.value.json)

\* what the network and the upstream can do with a request: answer it, fail to
\* connect, answer a non-2xx status, or answer 200 with a body that is not JSON
Outcomes == {"ok", "ConnectError", "HTTPStatusError", "JSONDecodeError"}

Etag(w) == "etag-" \o ToString(w)
NewEventId(w) == "n" \o ToString(w + 1)

\* the event ids in the order the upstream lists them
IdOrder(w) == <<"e1">> \o [i \in 1..w |-> NewEventId(i - 1)]
RECURSIVE ItemsOf(_, _)
ItemsOf(ids, st) ==
    IF ids = <<>> THEN <<>>
    ELSE (IF Head(ids) \in DOMAIN st THEN <<st[Head(ids)]>> ELSE <<>>)
         \o ItemsOf(Tail(ids), st)

Http(code, body) == Returns([status_code |-> code, json |-> body])

\* The upstream calendar API on one request: the response client.get / client.request
\* and raise_for_status produce, and the calendar afterwards.  GET reads, POST creates
\* an event under a fresh id, PUT replaces the whole document, DELETE removes it; a
\* request on a missing event is answered 404, and a PUT whose If-Match header names
\* another etag than the stored one is answered 412.  Under the outcome
\* JSONDecodeError the upstream does the same and answers 200 with a body that is
\* not JSON.
Upstream(request, outcome, st, w) ==
    LET ids == {id \in DOMAIN st : EventUrl(id) = request.url}
        id == CHOOSE i \in ids : TRUE
        same(response) == [response |-> response, store |-> st, wrote |-> None]
        created == request.json @@ [id |-> NewEventId(w), kind |-> "calendar#event",
                                     status |-> "confirmed", etag |-> Etag(w + 1),
                                     htmlLink |-> "https://calendar/" \o NewEventId(w)]
        replaced == Set(request.json, "etag", Etag(w + 1))
        answered ==
            IF outcome \in HTTPErrorClasses THEN same(Raises(outcome))
            ELSE IF request.method = "GET" /\ request.url = EventsUrl
            THEN same(Http(200, IF outcome = "ok_more"
                                THEN [items |-> ItemsOf(IdOrder(w), st),
                                      nextPageToken |-> "CiQKGjBhaWs"]
                                ELSE [items |-> ItemsOf(IdOrder(w), st)]))
            ELSE IF request.method = "POST"
            THEN [response |-> Http(200, created),
                  store |-> Set(st, NewEventId(w), created),
                  wrote |-> NewEventId(w)]
            ELSE IF ids = {} THEN same(Raises("HTTPStatusError"))
            ELSE IF request.method = "GET" THEN same(Http(200, st[id]))
            ELSE IF request.method = "PUT"
            THEN IF "If-Match" \in DOMAIN request.headers
                    /\ request.headers["If-Match"] \notin {"*", st[id].etag}
                 THEN same(Raises("HTTPStatusError"))
                 ELSE [response |-> Http(200, replaced),
                       store |-> Set(st, id, replaced),
                       wrote |-> id]
            ELSE [response |-> Http(204, <<>>),
                  store |-> [x \in DOMAIN st \ {id} |-> st[x]],
                  wrote |-> id]
    IN  IF outcome = "JSONDecodeError" /\ answered.response.exc = None
        THEN [answered EXCEPT !.response = Http(200, NotJSON)]
        ELSE answered

----------------------------------------------------------------------------
(* The calendar tools *)

Invocations == 1..NumInvocations

\* pc: "idle", "fetching" (awaiting _fetch_calendar_data), "modifying" (awaiting
\* _modify_calendar_data), "returned", "raised".  net, fetched_at and wrote_at record
\* the run: what the network did to the last request, how many writes the upstream
\* had applied when current_event was read, and which write this invocation's was.
AtRest == [pc |-> "idle", op |-> None, args |-> <<>>, requests |-> <<>>,
           current_event |-> <<>>, result |-> <<>>, raised |-> None,
           net |-> None, fetched_at |-> 0, wrote_at |-> 0]

\* an idle invocation runs a tool up to its first await, where its requests are sent
Start(p, op, args, requests, pc) ==
    /\ cal[p].pc = "idle"
    /\ cal' = [cal EXCEPT ![p] = [@ EXCEPT !.pc = pc, !.op = op, !.args = args,
                                             !.requests = requests]]
    /\ UNCHANGED <<store, writes, last_writer>>

Finish(p, up, outcome, call, result) ==
    cal' = [cal EXCEPT ![p] =
               IF call.exc # None
               THEN [@ EXCEPT !.pc = "raised", !.raised = call.exc, !.net = outcome,
                              !.wrote_at = IF up.wrote # None THEN writes + 1 ELSE 0]
               ELSE [@ EXCEPT !.pc = "returned", !.result = result, !.net = outcome,
                              !.wrote_at = IF up.wrote # None THEN writes + 1 ELSE 0]]

LastRequest(p) == cal[p].requests[Len(cal[p].requests)]

\* the upstream applies a write
Applied(p, up) ==
    /\ store' = up.store
    /\ writes' = IF up.wrote # None THEN writes + 1 ELSE writes
    /\ last_writer' = IF up.wrote # None THEN Set(last_writer, up.wrote, p)
                      ELSE last_writer

\* s.rstrip('Z') if s.endswith('Z') else s: every trailing Z is removed
RECURSIVE StripZ(_)
StripZ(s) ==
    IF Len(s) > 0 /\ SubSeq(s, Len(s), Len(s)) = "Z"
    THEN StripZ(SubSeq(s, 1, Len(s) - 1))
    ELSE s

\* s.split(","): the pieces between the commas, one piece when there is no comma
RECURSIVE SplitFrom(_, _, _)
SplitFrom(s, piece, pieces) ==
    IF Len(s) = 0 THEN Append(pieces, piece)
    ELSE IF SubSeq(s, 1, 1) = ","
         THEN SplitFrom(SubSeq(s, 2, Len(s)), "", Append(pieces, piece))
    ELSE SplitFrom(SubSeq(s, 2, Len(s)), piece \o SubSeq(s, 1, 1), pieces)

\* [email.strip() for email in attendees.split(",")]
SplitEmails(attendees) ==
    LET pieces == SplitFrom(attendees, "", <<>>)
    IN  [i \in 1..Len(pieces) |-> Strip(pieces[i])]

\* [{"email": email} for email in email_list]
EmailDicts(attendees) ==
    [i \in 1..Len(SplitEmails(attendees)) |-> [email |-> SplitEmails(attendees)[i]]]

\* e100_h100_cohere_hackathon_list_calendar_events up to its await
ListParams(a) ==
    LET base == [maxResults |-> a.max_results, singleEvents |-> TRUE,
                 orderBy |-> "startTime"]
        with_min == IF Truthy(a.time_min) THEN Set(base, "timeMin", a.time_min) ELSE base
        with_max == IF Truthy(a.time_max) THEN Set(with_min, "timeMax", a.time_max)
                    ELSE with_min
    IN  IF Truthy(a.search_query) THEN Set(with_max, "q", a.search_query) ELSE with_max

e100_h100_cohere_hackathon_list_calendar_events(p, a) ==
    Start(p, "list", a,
          FetchRequests(_get_google_token, EventsUrl, ListParams(a)), "fetching")

\* ... and from its await on
ListResultHasMoreAlways(response) ==
    LET items == Get(response, "items", <<>>)
        events == [i \in 1..Len(items) |-> format_event_to_document(items[i])]
    IN  [events |-> events, total_returned |-> Len(events),
         next_page_token |-> Get(response, "nextPageToken", None), has_more |-> TRUE]
ListResult(response) ==
    LET items == Get(response, "items", <<>>)
        events == [i \in 1..Len(items) |-> format_event_to_document(items[i])]
        result == [events |-> events, total_returned |-> Len(events)]
    IN  IF Truthy(Get(response, "nextPageToken", None))
        THEN result @@ [next_page_token |-> response["nextPageToken"], has_more |-> TRUE]
        ELSE result

list_calendar_events_resume(p, outcome) ==
    LET up == Upstream(LastRequest(p), outcome, store, writes)
        response == FetchResult(up.response)
    IN  /\ cal[p].pc = "fetching" /\ cal[p].op = "list"
        /\ Finish(p, up, outcome, response, ListResult(response.value))
        /\ UNCHANGED <<store, writes, last_writer>>

\* e100_h100_cohere_hackathon_get_calendar_event
e100_h100_cohere_hackathon_get_calendar_event(p, event_id) ==
    Start(p, "get", [event_id |-> event_id],
          FetchRequests(_get_google_token, EventUrl(event_id), NoneDict), "fetching")

get_calendar_event_resume(p, outcome) ==
    LET up == Upstream(LastRequest(p), outcome, store, writes)
        response == FetchResult(up.response)
    IN  /\ cal[p].pc = "fetching" /\ cal[p].op = "get"
        /\ Finish(p, up, outcome, response, format_event_to_document(response.value))
        /\ UNCHANGED <<store, writes, last_writer>>

\* e100_h100_cohere_hackathon_create_calendar_event
CreateEventData(a) ==
    LET event_data == [summary |-> a.title,
                       description |-> a.description,
                       start |-> [dateTime |-> StripZ(a.start_time), timeZone |-> a.timezone],
                       end |-> [dateTime |-> StripZ(a.end_time), timeZone |-> a.timezone]]
        with_location == IF Truthy(a.location) THEN Set(event_data, "location", a.location)
                         ELSE event_data
    IN  IF Truthy(a.attendees)
        THEN Set(with_location, "attendees", EmailDicts(a.attendees))
        ELSE with_location

e100_h100_cohere_hackathon_create_calendar_event(p, a) ==
    Start(p, "create", a,
          <<ModifyRequest(_get_google_token, EventsUrl, "POST", CreateEventData(a))>>,
          "modifying")

create_calendar_event_resume(p, outcome) ==
    LET up == Upstream(LastRequest(p), outcome, store, writes)
        response == ModifyResult(up.response)
    IN  /\ cal[p].pc = "modifying" /\ cal[p].op = "create"
        /\ Finish(p, up, outcome, response, format_event_to_document(response.value))
        /\ Applied(p, up)

\* e100_h100_cohere_hackathon_delete_calendar_event
e100_h100_cohere_hackathon_delete_calendar_event(p, event_id) ==
    Start(p, "delete", [event_id |-> event_id],
          <<ModifyRequest(_get_google_token, EventUrl(event_id), "DELETE", NoneDict)>>,
          "modifying")

delete_calendar_event_resume(p, outcome) ==
    LET up == Upstream(LastRequest(p), outcome, store, writes)
        response == ModifyResult(up.response)
    IN  /\ cal[p].pc = "modifying" /\ cal[p].op = "delete"
        /\ Finish(p, up, outcome, response,
                  [success |-> TRUE,
                   message |-> "Event " \o cal[p].args.event_id \o " deleted successfully"])
        /\ Applied(p, up)

\* e100_h100_cohere_hackathon_update_calendar_event: "Update only provided fields"
UpdateOverlayFresh(current_event, a) ==
    LET e1 == IF a.title # None THEN [summary |-> a.title] ELSE <<>>
        e2 == IF a.description # None THEN Set(e1, "description", a.description) ELSE e1
    IN  IF a.location # None THEN Set(e2, "location", a.location) ELSE e2
UpdateOverlay(current_event, a) ==
    LET e1 == IF a.title # None THEN Set(current_event, "summary", a.title)
              ELSE current_event
        e2 == IF a.description # None THEN Set(e1, "description", a.description) ELSE e1
        e3 == IF a.location # None THEN Set(e2, "location", a.location) ELSE e2
        e4 == IF a.start_time # None
              THEN Set(e3, "start", [dateTime |-> StripZ(a.start_time),
                                     timeZone |-> a.timezone])
              ELSE e3
        e5 == IF a.end_time # None
              THEN Set(e4, "end", [dateTime |-> StripZ(a.end_time),
                                   timeZone |-> a.timezone])
              ELSE e4
    IN  IF a.attendees # None THEN Set(e5, "attendees", EmailDicts(a.attendees)) ELSE e5

\* up to the await of the fetch
e100_h100_cohere_hackathon_update_calendar_event(p, a) ==
    Start(p, "update", a,
          FetchRequests(_get_google_token, EventUrl(a.event_id), NoneDict), "fetching")

\* from the fetch to the await of the write
update_calendar_event_fetched(p, outcome) ==
    LET up == Upstream(LastRequest(p), outcome, store, writes)
        current_event == FetchResult(up.response)
    IN  /\ cal[p].pc = "fetching" /\ cal[p].op = "update"
        /\ cal' = [cal EXCEPT ![p] =
               IF current_event.exc # None
               THEN [@ EXCEPT !.pc = "raised", !.raised = current_event.exc,
                              !.net = outcome]
               ELSE [@ EXCEPT !.pc = "modifying",
                              !.net = outcome,
                              !.current_event = current_event.value,
                              !.fetched_at = writes,
                              !.requests = @ \o
                                  <<ModifyRequest(_get_google_token,
                                                  EventUrl(cal[p].args.event_id), "PUT",
                                                  UpdateOverlay(current_event.value,
                                                                cal[p].args))>>]]
        /\ UNCHANGED <<store, writes, last_writer>>

\* from the write on
update_calendar_event_written(p, outcome) ==
    LET up == Upstream(LastRequest(p), outcome, store, writes)
        response == ModifyResult(up.response)
    IN  /\ cal[p].pc = "modifying" /\ cal[p].op = "update"
        /\ Finish(p, up, outcome, response, format_event_to_document(response.value))
        /\ Applied(p, up)

----------------------------------------------------------------------------
(* The calendar tools as a state machine *)

\* a timed event with attendees and a video link, as the upstream stores it
TimedEvent ==
    [id |-> "e1", kind |-> "calendar#event", etag |-> Etag(0), status |-> "tentative",
     htmlLink |-> "https://calendar/e1", summary |-> "Standup", location |-> "Room 1",
     start |-> [dateTime |-> "2026-01-15T09:00:00-05:00", timeZone |-> "America/New_York"],
     end |-> [dateTime |-> "2026-01-15T09:30:00-05:00", timeZone |-> "America/New_York"],
     attendees |-> <<[email |-> "a@x.com", displayName |-> "Ann",
                      responseStatus |-> "accepted", organizer |-> TRUE],
                     [email |-> "b@x.com"]>>,
     conferenceData |-> [entryPoints |-> <<[entryPointType |-> "phone", uri |-> "tel:+1"],
                                           [entryPointType |-> "video",
                                            uri |-> "https://meet/abc"]>>]]
\* an all-day event without title, location, attendees or link
AllDayEvent ==
    [id |-> "e1", etag |-> Etag(0),
     start |-> [date |-> "2026-01-15"], end |-> [date |-> "2026-01-16"]]

InitialEvents == {TimedEvent, AllDayEvent}

DefaultTimezone == "America/New_York"

UpdateArgs(title, start_time, end_time, description, location, attendees) ==
    [event_id |-> "e1", title |-> title, start_time |-> start_time,
     end_time |-> end_time, description |-> description, location |-> location,
     attendees |-> attendees, timezone |-> DefaultTimezone]

\* only the location
OnlyLocation == UpdateArgs(None, None, None, None, "Room 5", None)
\* everything but the location; the description and the attendees are empty strings
AllButLocation == UpdateArgs("Retro", "2026-01-15T10:00:00Z", "2026-01-15T11:00:00",
                             "", None, "")

UpdateArgChoices == {OnlyLocation, AllButLocation}

CreateArgChoices ==
    {[title |-> "Lunch", start_time |-> "2026-01-16T12:00:00ZZ",
      end_time |-> "2026-01-16T13:00:00Z", description |-> "", location |-> "Cafe",
      attendees |-> "a@x.com, b@x.com", timezone |-> DefaultTimezone]}

ListArgChoices ==
    {[max_results |-> 10, time_min |-> "2026-01-15T00:00:00Z", time_max |-> None,
      search_query |-> "standup"]}

CalendarAtRest ==
    /\ store = [e1 |-> TimedEvent]
    /\ writes = 0
    /\ last_writer = <<>>
    /\ cal = [p \in Invocations |-> AtRest]

InitCalendar ==
    /\ ConcertsAtRest
    /\ SearchAtRest
    /\ store \in {[e1 |-> e] : e \in InitialEvents}
    /\ writes = 0
    /\ last_writer = <<>>
    /\ cal = [p \in Invocations |-> AtRest]

ListEvents ==
    /\ \E p \in Invocations, a \in ListArgChoices :
            e100_h100_cohere_hackathon_list_calendar_events(p, a)
    /\ UNCHANGED <<concert_vars, search>>
ListEventsResume ==
    /\ \E p \in Invocations, outcome \in Outcomes \cup {"ok_more"} :
            list_calendar_events_resume(p, outcome)
    /\ UNCHANGED <<concert_vars, search>>
GetEvent ==
    /\ \E p \in Invocations : e100_h100_cohere_hackathon_get_calendar_event(p, "e1")
    /\ UNCHANGED <<concert_vars, search>>
GetEventResume ==
    /\ \E p \in Invocations, outcome \in Outcomes : get_calendar_event_resume(p, outcome)
    /\ UNCHANGED <<concert_vars, search>>
CreateEvent ==
    /\ \E p \in Invocations, a \in CreateArgChoices :
            e100_h100_cohere_hackathon_create_calendar_event(p, a)
    /\ UNCHANGED <<concert_vars, search>>
CreateEventResume ==
    /\ \E p \in Invocations, outcome \in Outcomes : create_calendar_event_resume(p, outcome)
    /\ UNCHANGED <<concert_vars, search>>
DeleteEvent ==
    /\ \E p \in Invocations : e100_h100_cohere_hackathon_delete_calendar_event(p, "e1")
    /\ UNCHANGED <<concert_vars, search>>
DeleteEventResume ==
    /\ \E p \in Invocations, outcome \in Outcomes : delete_calendar_event_resume(p, outcome)
    /\ UNCHANGED <<concert_vars, search>>
UpdateEvent ==
    /\ \E p \in Invocations, a \in UpdateArgChoices :
            e100_h100_cohere_hackathon_update_calendar_event(p, a)
    /\ UNCHANGED <<concert_vars, search>>
UpdateEventFetched ==
    /\ \E p \in Invocations, outcome \in Outcomes : update_calendar_event_fetched(p, outcome)
    /\ UNCHANGED <<concert_vars, search>>
UpdateEventWritten ==
    /\ \E p \in Invocations, outcome \in Outcomes : update_calendar_event_written(p, outcome)
    /\ UNCHANGED <<concert_vars, search>>

NextCalendar ==
    \/ ListEvents \/ ListEventsResume
    \/ GetEvent \/ GetEventResume
    \/ CreateEvent \/ CreateEventResume
    \/ DeleteEvent \/ DeleteEventResume
    \/ UpdateEvent \/ UpdateEventFetched \/ UpdateEventWritten

SpecCalendar == InitCalendar /\ [][NextCalendar]_vars

----------------------------------------------------------------------------
(* Inputs of the concert search *)

Dates(start_date, start_time, end_date, end_time) ==
    [start |-> [localDate |-> start_date, localTime |-> start_time],
     end |-> [localDate |-> end_date, localTime |-> end_time]]

Venue == [name |-> "Massey Hall",
          address |-> [line1 |-> "178 Victoria St"],
          city |-> [name |-> "Toronto"]]

\* 2026-01-01 10:00 to 12:00, an explicit end
EvMorning == [name |-> "Morning", url |-> "https://tm/morning",
              dates |-> Dates("2026-01-01", "10:00:00", "2026-01-01", "12:00:00"),
              _embedded |-> [venues |-> <<Venue>>],
              priceRanges |-> <<[min |-> "25.0", max |-> "80.0"],
                                [min |-> "5.0", max |-> "9.0", currency |-> "EUR"]>>]
\* 2026-01-01 10:00, no end: the fallback ends it at 13:00
EvNoEnd == [name |-> "NoEnd",
            dates |-> [start |-> [localDate |-> "2026-01-01", localTime |-> "10:00:00"]],
            classifications |-> <<[segment |-> [name |-> "Music"],
                                   genre |-> [name |-> "Rock"]]>>]
\* 2026-01-01 09:00 to 12:00: starts one hour before 10:00
EvEarly == [name |-> "Early",
            dates |-> Dates("2026-01-01", "09:00:00", "2026-01-01", "12:00:00"),
            priceRanges |-> <<>>]
\* 2026-01-01 14:00 to 15:00
EvAfternoon == [name |-> "Afternoon",
                dates |-> Dates("2026-01-01", "14:00:00", "2026-01-01", "15:00:00"),
                sales |-> [public |-> [startDateTime |-> "2025-12-01T15:00:00Z"]]]
\* 2026-01-02, no localTime and no end: midnight to 03:00
EvNextDay == [name |-> "NextDay", url |-> "https://tm/nextday",
              dates |-> [start |-> [localDate |-> "2026-01-02"]],
              priceRanges |-> <<[min |-> "10.0", max |-> "20.0", currency |-> "CAD"]>>]
\* 2026-01-01 10:00 with an end date, 2026-01-03, and no end time
EvEndDateOnly == [name |-> "EndDateOnly",
                  dates |-> [start |-> [localDate |-> "2026-01-01",
                                        localTime |-> "10:00:00"],
                             end |-> [localDate |-> "2026-01-03"]]]
\* no start date at all
EvNoDate == [name |-> "NoDate", dates |-> [start |-> [dateTBD |-> TRUE]]]
\* an empty start date
EvEmptyDate == [name |-> "EmptyDate",
                dates |-> [start |-> [localDate |-> "", localTime |-> "10:00:00"],
                           end |-> [localDate |-> "2026-01-01", localTime |-> "12:00:00"]]]
\* a start date that is not an ISO date
EvBadDate == [name |-> "BadDate",
              dates |-> [start |-> [localDate |-> "01/02/2026", localTime |-> "10:00:00"]]]

EventChoices == {EvMorning, EvNoEnd, EvEarly, EvAfternoon, EvNextDay, EvEndDateOnly,
                 EvNoDate, EvEmptyDate, EvBadDate}

\* 10:00Z to 12:00Z on 2026-01-01
RangeMorning == <<DateTime(10, 0), DateTime(12, 0)>>
\* 00:00Z to 03:00Z on 2026-01-02
RangeNextDay == <<DateTime(24, 0), DateTime(27, 0)>>
\* 14:00+05:00 to 18:00+05:00 on 2026-01-01, that is 09:00Z to 13:00Z
RangeOffset == <<DateTime(14, 5), DateTime(18, 5)>>

\* 10:00 to 12:00 on 2026-01-01, naive
RangeNaive == <<NaiveDateTime(10), NaiveDateTime(12)>>

RangeChoices == {RangeMorning, RangeNextDay, RangeOffset, RangeNaive}

\* the strings the tool is called with
ToolStartChoices == {"2026-01-01T10:00:00Z", "2026-01-01T10:00:00",
                     "2026-01-01T14:00:00+05:00", "tomorrow"}
ToolEndChoices == {"2026-01-01T12:00:00Z", "2026-01-01T12:00:00",
                   "2026-01-01T18:00:00+05:00"}

GenreChoices == {None, "Rock"}

\* what awaiting client.get, raise_for_status and response.json can produce
VendorData == {<<>>, [page |-> [totalElements |-> 0]]}
              \cup {[_embedded |-> [events |-> evs]] : evs \in BoundedSeq(EventChoices, MaxEvents)}
VendorResponses == {Raises(e) : e \in {"ConnectError", "HTTPStatusError", "JSONDecodeError"}}
                   \cup {Returns(d) : d \in VendorData}

----------------------------------------------------------------------------
(* The concert search as a state machine *)

CallConcerts ==
    /\ \E ranges \in BoundedSeq(RangeChoices, MaxRanges), genre \in GenreChoices :
            get_concerts_in_time_ranges("Toronto", "ON", ranges, genre)
    /\ UNCHANGED <<tool_args, calendar_vars, search>>

CallConcertsTool ==
    /\ \E start_time \in ToolStartChoices, end_time \in ToolEndChoices :
            e100_h100_get_ticketmaster_concerts(start_time, end_time)
    /\ UNCHANGED <<calendar_vars, search>>

ResumeConcerts ==
    /\ \E response \in VendorResponses : get_concerts_in_time_ranges_resume(response)
    /\ UNCHANGED <<calendar_vars, search>>

InitConcerts == ConcertsAtRest /\ CalendarAtRest /\ SearchAtRest

NextConcerts == CallConcerts \/ CallConcertsTool \/ ResumeConcerts

SpecConcerts == InitConcerts /\ [][NextConcerts]_vars

----------------------------------------------------------------------------
(* Properties of the concert search *)

\* the event's start and end both parse to datetimes
Parses(event) ==
    /\ parse_event_datetime(event).exc = None
    /\ parse_event_datetime(event).value[1] # NoneDT
    /\ parse_event_datetime(event).value[2] # NoneDT
EventStart(event) == Instant(parse_event_datetime(event).value[1])
EventEnd(event) == Instant(parse_event_datetime(event).value[2])

\* some range holds the whole interval of the event, both ends inclusive
SomeRangeHolds(event, ranges) ==
    \E i \in 1..Len(ranges) :
        /\ Instant(ranges[i][1]) <= EventStart(event)
        /\ EventEnd(event) <= Instant(ranges[i][2])

\* the request was answered with a JSON body that carries an event list
AnsweredWithEvents ==
    /\ pc_concerts \in {"returned", "raised"}
    /\ vendor_response.exc = None
    /\ "_embedded" \in DOMAIN vendor_response.value
    /\ "events" \in DOMAIN vendor_response.value["_embedded"]
ResponseEvents == vendor_response.value["_embedded"]["events"]

InResult(event) ==
    \E k \in 1..Len(concerts_result) : concerts_result[k].name = event.name

\* C1: for every event whose start and end parse and every list of ranges,
\* event_falls_within_time_ranges returns, and returns true exactly when some range
\* contains the event's interval with both ends inclusive.
C1_ContainmentIffSomeRange ==
    \A event \in EventChoices :
        Parses(event) =>
            /\ event_falls_within_time_ranges(event, time_ranges).exc = None
            /\ event_falls_within_time_ranges(event, time_ranges).value
                   <=> SomeRangeHolds(event, time_ranges)

\* two ranges were searched; an event filling one range exactly was returned, and an
\* event that overlaps the same range and ends one hour past it was not
C1_Witness ==
    /\ AnsweredWithEvents
    /\ pc_concerts = "returned"
    /\ Len(time_ranges) = 2
    /\ \E i, j \in 1..Len(ResponseEvents), r \in 1..Len(time_ranges) :
        LET inside == ResponseEvents[i]
            over == ResponseEvents[j]
        IN  /\ Parses(inside) /\ Parses(over)
            /\ EventStart(inside) = Instant(time_ranges[r][1])
            /\ EventEnd(inside) = Instant(time_ranges[r][2])
            /\ InResult(inside)
            /\ EventStart(over) >= Instant(time_ranges[r][1])
            /\ EventEnd(over) = Instant(time_ranges[r][2]) + 1
            /\ ~SomeRangeHolds(over, time_ranges)
            /\ ~InResult(over)

\* the details of the events of the response that some range holds, in response order
RECURSIVE HeldDetails(_, _)
HeldDetails(events, ranges) ==
    IF events = <<>> THEN <<>>
    ELSE IF Parses(Head(events)) /\ SomeRangeHolds(Head(events), ranges)
         THEN <<extract_event_details(Head(events)).value>>
              \o HeldDetails(Tail(events), ranges)
         ELSE HeldDetails(Tail(events), ranges)

\* C2: when the vendor request succeeds, the returned list is exactly the details of
\* the vendor's events that lie within one of the caller's ranges, in response order.
C2_ResultIsExactlyTheContainedEvents ==
    AnsweredWithEvents =>
        /\ pc_concerts = "returned"
        /\ concerts_result = HeldDetails(ResponseEvents, time_ranges)

\* C3: a call of get_concerts_in_time_ranges with an empty list of ranges returns
\* an empty list and sends no request.
C3_EmptyRangesNoRequest ==
    (pc_concerts # "idle" /\ tool_args = <<>> /\ time_ranges = <<>>) =>
        /\ pc_concerts = "returned"
        /\ concerts_result = <<>>
        /\ concerts_raised = None
        /\ vendor_requests = <<>>

C3_Witness ==
    /\ pc_concerts = "returned"
    /\ tool_args = <<>>
    /\ time_ranges = <<>>
    /\ vendor_requests = <<>>

\* C4: when an event of the response has a malformed date, only that event is
\* excluded: nothing is raised and every other event of the response that lies
\* within a range is still returned.
C4_OnlyTheMalformedEventIsExcluded ==
    (/\ AnsweredWithEvents
     /\ \E i \in 1..Len(ResponseEvents) :
            parse_event_datetime(ResponseEvents[i]).exc = "ValueError") =>
        /\ pc_concerts = "returned"
        /\ \A j \in 1..Len(ResponseEvents) :
            (Parses(ResponseEvents[j]) /\ SomeRangeHolds(ResponseEvents[j], time_ranges))
                => InResult(ResponseEvents[j])

RequestFailures == {"ConnectError", "HTTPStatusError", "JSONDecodeError"}

\* C5: a network error, a non-success status or a malformed JSON body is caught
\* inside the function, which returns an empty list; nothing is raised.
C5_RequestFailureGivesEmptyList ==
    (pc_concerts \in {"returned", "raised"} /\ vendor_response.exc \in RequestFailures) =>
        /\ pc_concerts = "returned"
        /\ concerts_result = <<>>
        /\ concerts_raised = None

\* the body of the response was not JSON, and the call returned the empty list
C5_Witness ==
    /\ pc_concerts = "returned"
    /\ vendor_response.exc = "JSONDecodeError"
    /\ concerts_result = <<>>
    /\ Len(vendor_requests) = 1

\* the instant a "...Z" timestamp of a request denotes: Z says the fields are UTC
UTCInstantOf(stamp) == stamp.ymdhms

LeastStart(ranges) ==
    CHOOSE m \in {Instant(ranges[i][1]) : i \in 1..Len(ranges)} :
        \A i \in 1..Len(ranges) : m <= Instant(ranges[i][1])
GreatestEnd(ranges) ==
    CHOOSE m \in {Instant(ranges[i][2]) : i \in 1..Len(ranges)} :
        \A i \in 1..Len(ranges) : m >= Instant(ranges[i][2])

\* C6: for a non-empty list of ranges exactly one request is sent, from the least
\* range start to the greatest range end, with classification Music and size 30.
C6_OneRequestOverTheCoveringWindow ==
    (pc_concerts # "idle" /\ time_ranges # <<>>) =>
        /\ Len(vendor_requests) = 1
        /\ UTCInstantOf(vendor_requests[1].startDateTime) = LeastStart(time_ranges)
        /\ UTCInstantOf(vendor_requests[1].endDateTime) = GreatestEnd(time_ranges)
        /\ vendor_requests[1].classificationName = "Music"
        /\ vendor_requests[1].size = 30

\* the fields of the event that parse_event_datetime reads
StartInfo(event) == Get(Get(event, "dates", <<>>), "start", <<>>)
EndInfo(event) == Get(Get(event, "dates", <<>>), "end", <<>>)
HasStartDate(event) == Truthy(Get(StartInfo(event), "localDate", None))
HasEndDateAndTime(event) ==
    /\ Truthy(Get(EndInfo(event), "localDate", None))
    /\ Truthy(Get(EndInfo(event), "localTime", None))

\* the events the vendor answered that parse_event_datetime returns a pair for
ParsedEvents ==
    IF AnsweredWithEvents
    THEN {ResponseEvents[k] : k \in {i \in 1..Len(ResponseEvents) :
                                        parse_event_datetime(ResponseEvents[i]).exc = None}}
    ELSE {}
ParsedStart(event) == parse_event_datetime(event).value[1]
ParsedEnd(event) == parse_event_datetime(event).value[2]

\* the details returned for the event, if it is in the result
DetailsOf(event) ==
    {concerts_result[k] : k \in {i \in 1..Len(concerts_result) :
                                     concerts_result[i].name = event.name}}

\* C14 as stated: an event with a start date and no explicit end ends 3 hours after
\* its start, an event with an explicit end (an end date) ends on that date, at the
\* end's time when it names one, and the end is never absent when the start is
\* present.
C14_EndIsExplicitEndOrStartPlusThree ==
    \A event \in ParsedEvents :
        /\ ParsedStart(event) # NoneDT => ParsedEnd(event) # NoneDT
        /\ HasStartDate(event) /\ EndInfo(event) = <<>> =>
               /\ ParsedEnd(event) # NoneDT
               /\ Instant(ParsedEnd(event)) = Instant(ParsedStart(event)) + 3
        /\ HasStartDate(event) /\ "localDate" \in DOMAIN EndInfo(event) =>
               /\ ParsedEnd(event) # NoneDT
               /\ ParsedEnd(event).wall >= DateHours[EndInfo(event).localDate]
               /\ ParsedEnd(event).wall < DateHours[EndInfo(event).localDate] + 24
               /\ "localTime" \in DOMAIN EndInfo(event) =>
                      ParsedEnd(event).wall = DateHours[EndInfo(event).localDate]
                                              + TimeHours[EndInfo(event).localTime]

\* C14 as amended: an event with a start date that lacks an end date or an end time
\* ends 3 hours after its start; an event with a start date, an end date and an end
\* time ends at that date and time, read as UTC; the end is never absent when the
\* start is present; and the concert_end returned for the event is that end.
C14_EndIsDateAndTimeOrStartPlusThree ==
    \A event \in ParsedEvents :
        /\ ParsedStart(event) # NoneDT => ParsedEnd(event) # NoneDT
        /\ HasStartDate(event) /\ ~HasEndDateAndTime(event) =>
               /\ ParsedEnd(event) # NoneDT
               /\ ParsedEnd(event).off = ParsedStart(event).off
               /\ ParsedEnd(event).wall = ParsedStart(event).wall + 3
        /\ HasStartDate(event) /\ HasEndDateAndTime(event) =>
               ParsedEnd(event) = DateTime(DateHours[EndInfo(event).localDate]
                                           + TimeHours[EndInfo(event).localTime], 0)
        /\ pc_concerts = "returned" =>
               \A details \in DetailsOf(event) :
                   details.concert_end = IsoFormat(ParsedEnd(event))

\* the result holds an event without end, ended 3 hours after its start at 13:00,
\* and an event with an explicit end, ended there at 12:00
C14_Witness ==
    /\ pc_concerts = "returned"
    /\ EvNoEnd \in ParsedEvents /\ EvMorning \in ParsedEvents
    /\ \E details \in DetailsOf(EvNoEnd) :
            /\ details.concert_start = IsoFormat(DateTime(10, 0))
            /\ details.concert_end = IsoFormat(DateTime(13, 0))
    /\ \E details \in DetailsOf(EvMorning) :
            details.concert_end = IsoFormat(DateTime(12, 0))

\* C15: an event without start date parses to (None, None),
\* event_falls_within_time_ranges is False for it against every list of ranges,
\* and the result of get_concerts_in_time_ranges does not hold it.
C15_EventWithoutStartDateIsNeverReturned ==
    AnsweredWithEvents =>
        \A k \in 1..Len(ResponseEvents) :
            ~HasStartDate(ResponseEvents[k]) =>
                /\ parse_event_datetime(ResponseEvents[k]) = Returns(<<NoneDT, NoneDT>>)
                /\ event_falls_within_time_ranges(ResponseEvents[k], time_ranges)
                       = Returns(FALSE)
                /\ \A ranges \in BoundedSeq(RangeChoices, MaxRanges) :
                       event_falls_within_time_ranges(ResponseEvents[k], ranges)
                           = Returns(FALSE)
                /\ DetailsOf(ResponseEvents[k]) = {}

\* the vendor answered an event without start date and an event within the range:
\* the result holds the second and not the first
C15_Witness ==
    /\ pc_concerts = "returned"
    /\ AnsweredWithEvents
    /\ \E k \in 1..Len(ResponseEvents) : ResponseEvents[k] = EvNoDate
    /\ \E k \in 1..Len(ResponseEvents) : ResponseEvents[k] = EvMorning
    /\ DetailsOf(EvMorning) # {}
    /\ DetailsOf(EvNoDate) = {}
    /\ Len(concerts_result) = 1

\* C16: the prices of a returned event are those of its first price range alone;
\* without a price range price_min, price_max and currency are all "N/A"; with a
\* first price range that has no currency the currency is "USD"; and the currency
\* is "USD" by default only when a price range exists.
C16_PricesComeFromTheFirstPriceRange ==
    pc_concerts = "returned" =>
        \A event \in ParsedEvents : \A details \in DetailsOf(event) :
            LET price_ranges == Get(event, "priceRanges", <<>>)
            IN  /\ price_ranges = <<>> =>
                       /\ details.price_min = "N/A"
                       /\ details.price_max = "N/A"
                       /\ details.currency = "N/A"
                /\ price_ranges # <<>> =>
                       /\ details.price_min = Get(price_ranges[1], "min", "N/A")
                       /\ details.price_max = Get(price_ranges[1], "max", "N/A")
                       /\ "currency" \in DOMAIN price_ranges[1] =>
                              details.currency = price_ranges[1].currency
                       /\ "currency" \notin DOMAIN price_ranges[1] =>
                              details.currency = "USD"

\* the result holds an event without price range, all "N/A", and an event whose
\* first of two price ranges has no currency: its prices, in "USD"
C16_Witness ==
    /\ pc_concerts = "returned"
    /\ EvNoEnd \in ParsedEvents /\ EvMorning \in ParsedEvents
    /\ \E details \in DetailsOf(EvNoEnd) :
            /\ details.price_min = "N/A" /\ details.price_max = "N/A"
            /\ details.currency = "N/A"
    /\ \E details \in DetailsOf(EvMorning) :
            /\ details.price_min = "25.0" /\ details.price_max = "80.0"
            /\ details.currency = "USD"

----------------------------------------------------------------------------
(* Properties of the calendar tools *)

\* the document keys the arguments of an update supply
SuppliedKeys(a) ==
    {k \in {"summary", "description", "location", "start", "end", "attendees"} :
        CASE k = "summary" -> a.title # None
          [] k = "description" -> a.description # None
          [] k = "location" -> a.location # None
          [] k = "start" -> a.start_time # None
          [] k = "end" -> a.end_time # None
          [] k = "attendees" -> a.attendees # None}

\* the invocation is an update that has sent its write
SentWrite(p) == cal[p].op = "update" /\ Len(cal[p].requests) = 2
PutDocument(p) == cal[p].requests[2].json

\* the upstream alone sets the etag of a stored document
SameButEtag(d, e) ==
    /\ DOMAIN d \cup {"etag"} = DOMAIN e \cup {"etag"}
    /\ \A k \in DOMAIN d \ {"etag"} : d[k] = e[k]

\* the write of invocation p is the last one the upstream applied to event e1
LastWriteIs(p) == "e1" \in DOMAIN store /\ Get(last_writer, "e1", 0) = p

\* C7: the document an update writes is the fetched event with only the supplied
\* fields overlaid; an update with only location set leaves summary, start, end,
\* attendees and every other fetched field as they were, in the write and in the
\* calendar after it.
C7_UpdateIsReadModifyWrite ==
    \A p \in Invocations :
        SentWrite(p) =>
            LET a == cal[p].args
                fetched == cal[p].current_event
                put == PutDocument(p)
            IN  /\ cal[p].requests[2].method = "PUT"
                /\ DOMAIN put = DOMAIN fetched \cup SuppliedKeys(a)
                /\ \A k \in DOMAIN fetched \ SuppliedKeys(a) : put[k] = fetched[k]
                /\ a.title # None => put.summary = a.title
                /\ a.description # None => put.description = a.description
                /\ a.location # None => put.location = a.location
                /\ a.start_time # None => put.start.timeZone = a.timezone
                /\ a.end_time # None => put.end.timeZone = a.timezone
                /\ (cal[p].pc = "returned" /\ LastWriteIs(p)) =>
                       \A k \in DOMAIN fetched \ (SuppliedKeys(a) \cup {"etag"}) :
                           store["e1"][k] = fetched[k]

\* an update with only location set was written: the location changed, and the stored
\* summary, start, end and attendees are the fetched ones
C7_Witness ==
    \E p \in Invocations :
        /\ SentWrite(p) /\ cal[p].pc = "returned" /\ LastWriteIs(p)
        /\ cal[p].args = OnlyLocation
        /\ cal[p].current_event = TimedEvent
        /\ store["e1"].location = "Room 5"
        /\ store["e1"].summary = "Standup"
        /\ store["e1"].start = TimedEvent.start
        /\ store["e1"].end = TimedEvent.end
        /\ store["e1"].attendees = TimedEvent.attendees

\* no delete of the event has been applied
NoDeleteApplied ==
    \A q \in Invocations : ~(cal[q].op = "delete" /\ cal[q].wrote_at > 0)

\* C8: a change of the event by another writer between an update's fetch and its
\* write is neither detected nor prevented: unless the transport fails or the event
\* is gone, the write succeeds, and the calendar then holds the written document,
\* whatever was written in between.
C8_StaleWriteSucceedsAndOverwrites ==
    \A p \in Invocations :
        (/\ SentWrite(p)
         /\ cal[p].pc \in {"returned", "raised"}
         /\ cal[p].net = "ok"
         /\ NoDeleteApplied) =>
            /\ cal[p].pc = "returned"
            /\ LastWriteIs(p) => SameButEtag(store["e1"], PutDocument(p))

\* two updates interleaved: q wrote a new title after p had fetched and before p
\* wrote its location; both returned, and the title q set is no longer stored
C8_Witness ==
    \E p, q \in Invocations :
        /\ p # q
        /\ SentWrite(p) /\ SentWrite(q)
        /\ cal[p].pc = "returned" /\ cal[q].pc = "returned"
        /\ cal[p].args = OnlyLocation /\ cal[q].args = AllButLocation
        /\ cal[p].fetched_at < cal[q].wrote_at
        /\ cal[q].wrote_at < cal[p].wrote_at
        /\ cal[q].result.title = "Retro"
        /\ LastWriteIs(p)
        /\ store["e1"].location = "Room 5"
        /\ Get(store["e1"], "summary", None) # "Retro"

\* C9 as stated: no invocation of a calendar tool sends more than one request.
C9_AtMostOneRequestPerInvocation ==
    \A p \in Invocations : Len(cal[p].requests) <= 1

Methods(p) == [i \in 1..Len(cal[p].requests) |-> cal[p].requests[i].method]

\* C9 as amended: list, get, create and delete send exactly one authenticated
\* request per invocation; update sends one GET and, only when the GET succeeded,
\* one PUT; no request is sent again, whether it succeeded or failed.
C9_OneRequestPerStepNoRetry ==
    \A p \in Invocations :
        /\ cal[p].op = None => cal[p].requests = <<>>
        /\ cal[p].op \in {"list", "get"} => Methods(p) = <<"GET">>
        /\ cal[p].op = "create" => Methods(p) = <<"POST">>
        /\ cal[p].op = "delete" => Methods(p) = <<"DELETE">>
        /\ cal[p].op = "update" =>
            IF cal[p].pc = "fetching" \/ cal[p].current_event = <<>>
            THEN Methods(p) = <<"GET">>
            ELSE Methods(p) = <<"GET", "PUT">>
        /\ \A i \in 1..Len(cal[p].requests) :
            cal[p].requests[i].headers.Authorization = "Bearer " \o ACCESS_TOKEN

\* an update has returned after its GET and its PUT, and another invocation raised
\* after its single failed request
C9_Witness ==
    \E p, q \in Invocations :
        /\ cal[p].op = "update" /\ cal[p].pc = "returned"
        /\ Methods(p) = <<"GET", "PUT">>
        /\ cal[q].pc = "raised" /\ cal[q].net \in HTTPErrorClasses
        /\ Len(cal[q].requests) = 1

\* what the upstream answers to the request p awaits, were the network to do outcome
Answer(p, outcome) == Upstream(LastRequest(p), outcome, store, writes).response

\* C11: a list invocation that returns has sent one request, without a pageToken,
\* and its result holds the items of that one response; the result carries
\* next_page_token, equal to the upstream nextPageToken, and has_more = TRUE
\* exactly when the upstream response has a nextPageToken, and neither field
\* otherwise.
C11_ListReturnsOnePageAndPassesTheToken ==
    [][\A p \in Invocations, outcome \in Outcomes \cup {"ok_more"} :
          list_calendar_events_resume(p, outcome) /\ cal'[p].pc = "returned" =>
              LET upstream == Answer(p, outcome).value.json
                  result == cal'[p].result
              IN  /\ Len(cal'[p].requests) = 1
                  /\ cal'[p].requests[1].method = "GET"
                  /\ "pageToken" \notin DOMAIN cal'[p].requests[1].params
                  /\ Len(result.events) = Len(upstream.items)
                  /\ result.total_returned = Len(upstream.items)
                  /\ IF "nextPageToken" \in DOMAIN upstream
                     THEN /\ {"next_page_token", "has_more"} \subseteq DOMAIN result
                          /\ result.next_page_token = upstream.nextPageToken
                          /\ result.has_more = TRUE
                     ELSE {"next_page_token", "has_more"} \cap DOMAIN result = {}]_vars

\* one listing returned with the upstream's token and has_more, another returned
\* without either field
C11_Witness ==
    \E p, q \in Invocations :
        /\ cal[p].op = "list" /\ cal[p].pc = "returned" /\ cal[p].net = "ok_more"
        /\ Get(cal[p].result, "next_page_token", None) = "CiQKGjBhaWs"
        /\ Get(cal[p].result, "has_more", FALSE)
        /\ Len(cal[p].requests) = 1
        /\ cal[q].op = "list" /\ cal[q].pc = "returned" /\ cal[q].net = "ok"
        /\ "next_page_token" \notin DOMAIN cal[q].result
        /\ "has_more" \notin DOMAIN cal[q].result

\* C12: when the fetch of an update fails (network failure or non-2xx status), the
\* invocation raises that error having sent its GET only, the calendar is as it
\* was, and an invocation that has raised sends nothing afterwards.
C12_FailedFetchRaisesAndWritesNothing ==
    [][/\ \A p \in Invocations, outcome \in Outcomes :
            update_calendar_event_fetched(p, outcome) /\ Answer(p, outcome).exc # None =>
                /\ cal'[p].pc = "raised"
                /\ cal'[p].raised = Answer(p, outcome).exc
                /\ cal'[p].raised \in HTTPErrorClasses
                /\ Methods(p) = <<"GET">>
                /\ cal'[p].requests = cal[p].requests
                /\ store' = store /\ writes' = writes
       /\ \A p \in Invocations : cal[p].pc = "raised" => cal'[p] = cal[p]]_vars

\* an update raised on its fetch, once on a network failure and once on a non-2xx
\* status, and the event is as it was stored
C12_Witness ==
    \E p, q \in Invocations :
        /\ cal[p].op = "update" /\ cal[p].pc = "raised"
        /\ cal[p].net = "ConnectError" /\ cal[p].raised = "ConnectError"
        /\ cal[q].op = "update" /\ cal[q].pc = "raised"
        /\ cal[q].net = "HTTPStatusError" /\ cal[q].raised = "HTTPStatusError"
        /\ Methods(p) = <<"GET">> /\ Methods(q) = <<"GET">>
        /\ writes = 0 /\ store["e1"] \in InitialEvents

\* the get, create and update tools return format_event_to_document of the event
\* the upstream answered
FormatsAnswer(p, outcome) ==
    /\ \/ get_calendar_event_resume(p, outcome)
       \/ create_calendar_event_resume(p, outcome)
       \/ update_calendar_event_written(p, outcome)
    /\ cal'[p].pc = "returned"

\* C13 as stated: the id, title and url of the formatted document are the id,
\* summary and htmlLink of the event that was formatted, for every event.
C13_FormattedIdTitleUrlAreTheInputs ==
    [][\A p \in Invocations, outcome \in Outcomes :
          FormatsAnswer(p, outcome) =>
              LET event == Answer(p, outcome).value.json
                  document == cal'[p].result
              IN  /\ document.id = Get(event, "id", None)
                  /\ document.title = Get(event, "summary", None)
                  /\ document.url = Get(event, "htmlLink", None)]_vars

\* C13 as amended: the id of the formatted document is the id of the event; its
\* title is the event's summary when the event has one and "(No title)" when it
\* has none; its url is the event's htmlLink when the event has one and "" when
\* it has none.
C13_FormattedIdTitleUrlOrDefaults ==
    [][\A p \in Invocations, outcome \in Outcomes :
          FormatsAnswer(p, outcome) =>
              LET event == Answer(p, outcome).value.json
                  document == cal'[p].result
              IN  /\ document.id = Get(event, "id", None)
                  /\ document.title = IF "summary" \in DOMAIN event
                                      THEN event.summary ELSE "(No title)"
                  /\ document.url = IF "htmlLink" \in DOMAIN event
                                    THEN event.htmlLink ELSE ""]_vars

\* the all-day event, which has neither title nor link, was read back with the
\* defaults, and an update that gave it a title returned it under that title
C13_Witness ==
    \E p, q \in Invocations :
        /\ cal[p].op = "get" /\ cal[p].pc = "returned"
        /\ cal[p].result.id = "e1"
        /\ cal[p].result.title = "(No title)"
        /\ cal[p].result.url = ""
        /\ cal[q].op = "update" /\ cal[q].pc = "returned"
        /\ cal[q].result.id = "e1"
        /\ cal[q].result.title = "Retro"
        /\ store["e1"].summary = "Retro"

----------------------------------------------------------------------------
(* e100_h100_search_ticketmaster_events *)

\* min(size, 200)
SearchSizeCap == 200

SearchParams(api_key, a) ==
    LET p0 == [apikey |-> api_key,
               size |-> IF a.size < SearchSizeCap THEN a.size ELSE SearchSizeCap,
               countryCode |-> a.country_code]
        p1 == IF Truthy(a.keyword) THEN Set(p0, "keyword", a.keyword) ELSE p0
        p2 == IF Truthy(a.city) THEN Set(p1, "city", a.city) ELSE p1
        p3 == IF Truthy(a.state) THEN Set(p2, "stateCode", a.state) ELSE p2
        p4 == IF Truthy(a.postal_code) THEN Set(p3, "postalCode", a.postal_code) ELSE p3
        p5 == IF Truthy(a.category) THEN Set(p4, "classificationName", a.category) ELSE p4
        p6 == IF Truthy(a.genre) THEN Set(p5, "genreName", a.genre) ELSE p5
        p7 == IF Truthy(a.start_date)
              THEN Set(p6, "startDateTime", a.start_date \o "T00:00:00Z") ELSE p6
    IN  IF Truthy(a.end_date)
        THEN Set(p7, "endDateTime", a.end_date \o "T23:59:59Z") ELSE p7

\* the event_info of one event of the response
SearchEventInfo(event) ==
    LET classifications == Get(event, "classifications", <<>>)
        genre == Get(classifications[1], "genre", <<>>)
        category == Get(classifications[1], "segment", <<>>)
        genre_name == IF classifications # <<>> /\ genre # <<>>
                      THEN Get(genre, "name", None) ELSE None
        category_name == IF classifications # <<>> /\ category # <<>>
                         THEN Get(category, "name", None) ELSE None
        dates_info == Get(Get(event, "dates", <<>>), "start", <<>>)
        price_ranges == Get(event, "priceRanges", <<>>)
        price_info == IF price_ranges # <<>>
                      THEN [min |-> Get(price_ranges[1], "min", None),
                            max |-> Get(price_ranges[1], "max", None),
                            currency |-> Get(price_ranges[1], "currency", "USD")]
                      ELSE NoneDict
        event_info == [id |-> Get(event, "id", None),
                       name |-> Get(event, "name", None),
                       url |-> Get(event, "url", None),
                       date |-> Get(dates_info, "localDate", "N/A"),
                       time |-> Get(dates_info, "localTime", ""),
                       category |-> category_name,
                       genre |-> genre_name,
                       status |-> Get(Get(event, "status", <<>>), "code", None),
                       price_info |-> price_info]
    IN  IF "_embedded" \in DOMAIN event /\ "venues" \in DOMAIN event["_embedded"]
        THEN IF event["_embedded"]["venues"] = <<>> THEN Raises("IndexError")
             ELSE LET venue == event["_embedded"]["venues"][1]
                  IN  Returns(Set(event_info, "venue",
                          [name |-> Get(venue, "name", None),
                           city |-> Get(Get(venue, "city", <<>>), "name", None),
                           state |-> Get(Get(venue, "state", <<>>), "stateCode", None),
                           country |-> Get(Get(venue, "country", <<>>), "countryCode", None),
                           address |-> Get(Get(venue, "address", <<>>), "line1", None)]))
        ELSE Returns(event_info)

\* for event in data["_embedded"]["events"]: events.append(event_info)
RECURSIVE SearchEvents(_, _)
SearchEvents(raw, events) ==
    IF raw = <<>> THEN Returns(events)
    ELSE LET event_info == SearchEventInfo(Head(raw))
         IN  IF event_info.exc # None THEN Raises(event_info.exc)
             ELSE SearchEvents(Tail(raw), Append(events, event_info.value))

\* the body of the try block once client.get has been awaited
SearchTryBody(response) ==
    IF response.exc # None THEN Raises(response.exc)
    ELSE LET data == response.value
             events == IF "_embedded" \in DOMAIN data /\ "events" \in DOMAIN data["_embedded"]
                       THEN SearchEvents(data["_embedded"]["events"], <<>>)
                       ELSE Returns(<<>>)
         IN  IF events.exc # None THEN Raises(events.exc)
             ELSE Returns([events |-> events.value,
                           total_returned |-> Len(events.value),
                           total_available |->
                               Get(Get(data, "page", <<>>), "totalElements", 0)])

\* except httpx.HTTPError as e
SearchCatches(exc) == exc \in HTTPErrorClasses

\* the tool up to its await: the API key check, the params, the request
e100_h100_search_ticketmaster_events(a) ==
    LET api_key == TICKETMASTER_API_KEY
    IN  /\ search.pc = "idle"
        /\ search' =
            IF ~Truthy(api_key)
            THEN [search EXCEPT !.pc = "returned", !.args = a,
                                !.result =
                                    [error |-> "Ticketmaster API key not set. "
                                        \o "Please add your API key to "
                                        \o "TICKETMASTER_API_KEY at the top of "
                                        \o "simple_calendar.py"]]
            ELSE [search EXCEPT !.pc = "awaiting", !.args = a,
                                !.requests = Append(@, SearchParams(api_key, a))]

\* the tool from its await on
search_ticketmaster_events_resume(response) ==
    LET body == SearchTryBody(response)
    IN  /\ search.pc = "awaiting"
        /\ search' =
            IF body.exc = None
            THEN [search EXCEPT !.pc = "returned", !.response = response,
                                !.result = body.value]
            ELSE IF SearchCatches(body.exc)
            THEN [search EXCEPT !.pc = "returned", !.response = response,
                                !.result = [error |-> "Failed to search Ticketmaster events: "
                                                      \o body.exc]]
            ELSE [search EXCEPT !.pc = "raised", !.response = response,
                                !.raised = body.exc]

SearchArgChoices ==
    {[keyword |-> k, city |-> c, state |-> IF c = None THEN None ELSE "ON",
      postal_code |-> None, country_code |-> IF c = None THEN "US" ELSE "CA",
      category |-> g, genre |-> IF g = None THEN None ELSE "Rock",
      start_date |-> d, end_date |-> IF d = None THEN None ELSE "2026-01-31",
      size |-> n] :
        k \in {None, "jazz"}, c \in {None, "Toronto"}, g \in {None, "Music"},
        d \in {None, "2026-01-01"}, n \in {10, 500}}

CallSearch ==
    /\ \E a \in SearchArgChoices : e100_h100_search_ticketmaster_events(a)
    /\ UNCHANGED <<concert_vars, calendar_vars>>

ResumeSearch ==
    /\ \E response \in VendorResponses : search_ticketmaster_events_resume(response)
    /\ UNCHANGED <<concert_vars, calendar_vars>>

InitSearch == ConcertsAtRest /\ CalendarAtRest /\ SearchAtRest

NextSearch == CallSearch \/ ResumeSearch

SpecSearch == InitSearch /\ [][NextSearch]_vars

\* C10: every failure of the search (network error, non-2xx status, malformed
\* response body) comes back as a record with an "error" field; nothing is raised.
C10_SearchFailuresAreErrorRecords ==
    (search.pc \in {"returned", "raised"} /\ search.response.exc \in RequestFailures) =>
        /\ search.pc = "returned"
        /\ "error" \in DOMAIN search.result

====
